---- MODULE Spec2Model ----
(***************************************************************************)
(* Progress tracking of a long-running analysis job in the browser client: *)
(*   static/js/analysis.js   page state, polling driver, page push socket  *)
(*   static/js/websocket.js  WebSocketManager (connection manager)         *)
(***************************************************************************)
EXTENDS Integers, Sequences, FiniteSets, TLC

\* ------------------------------------------------------------------ bounds
\* poll loops that may be started (startProgressPolling calls)
MaxLoops == 2
\* status requests issued plus push events delivered
MaxEvents == 4
\* sockets the connection manager may create (initialize calls with io present)
MaxWsSockets == 2
\* handlers registered per event name
MaxHandlers == 3
\* sockets created in the connection-lifecycle specification
MaxRcSockets == 1
\* reconnect_error events counted by the manager since its last connect
MaxCounted == 8
\* seconds the wall clock advances after the page has loaded
MaxNow == 2

\* ------------------------------------------------------------- constants
Null == "null"
Jobs == {"a1", "a2"}
\* the job the page tracks
Tracked == {"a1"}
FeedLimit == 50

\* ---------------------------------------------------------------- strings
\* Strings on which the code does character work are unfolded by Chars.
Chars(s) ==
     CASE s = "market_research" -> <<"m","a","r","k","e","t","_","r","e","s","e","a","r","c","h">>
       [] s = "avatar_analysis" -> <<"a","v","a","t","a","r","_","a","n","a","l","y","s","i","s">>
       [] s = "mental_drivers" -> <<"m","e","n","t","a","l","_","d","r","i","v","e","r","s">>
       [] s = "objection_analysis" -> <<"o","b","j","e","c","t","i","o","n","_","a","n","a","l","y","s","i","s">>
       [] s = "provi_system" -> <<"p","r","o","v","i","_","s","y","s","t","e","m">>
       [] s = "prepitch_architecture" -> <<"p","r","e","p","i","t","c","h","_","a","r","c","h","i","t","e","c","t","u","r","e">>
       [] s = "report_generation" -> <<"r","e","p","o","r","t","_","g","e","n","e","r","a","t","i","o","n">>
       [] s = "pdf_generation" -> <<"p","d","f","_","g","e","n","e","r","a","t","i","o","n">>
       [] s = "Market Research" -> <<"M","a","r","k","e","t"," ","R","e","s","e","a","r","c","h">>
       [] s = "Avatar Psychology Analysis" -> <<"A","v","a","t","a","r"," ","P","s","y","c","h","o","l","o","g","y"," ","A","n","a","l","y","s","i","s">>
       [] s = "Mental Drivers Framework" -> <<"M","e","n","t","a","l"," ","D","r","i","v","e","r","s"," ","F","r","a","m","e","w","o","r","k">>
       [] s = "Objection Analysis" -> <<"O","b","j","e","c","t","i","o","n"," ","A","n","a","l","y","s","i","s">>
       [] s = "Visual Proof System (PROVIs)" -> <<"V","i","s","u","a","l"," ","P","r","o","o","f"," ","S","y","s","t","e","m"," ","(","P","R","O","V","I","s",")">>
       [] s = "Pre-Pitch Architecture" -> <<"P","r","e","-","P","i","t","c","h"," ","A","r","c","h","i","t","e","c","t","u","r","e">>
       [] s = "Report Generation" -> <<"R","e","p","o","r","t"," ","G","e","n","e","r","a","t","i","o","n">>
       [] s = "PDF Generation" -> <<"P","D","F"," ","G","e","n","e","r","a","t","i","o","n">>
       [] s = "Starting market research" -> <<"S","t","a","r","t","i","n","g"," ","m","a","r","k","e","t"," ","r","e","s","e","a","r","c","h">>
       [] s = "Deep AVATAR ANALYSIS pass" -> <<"D","e","e","p"," ","A","V","A","T","A","R"," ","A","N","A","L","Y","S","I","S"," ","p","a","s","s">>
       [] s = "Finalizing" -> <<"F","i","n","a","l","i","z","i","n","g">>
       [] s = "Objection analysis after avatar analysis" -> <<"O","b","j","e","c","t","i","o","n"," ","a","n","a","l","y","s","i","s"," ","a","f","t","e","r"," ","a","v","a","t","a","r"," ","a","n","a","l","y","s","i","s">>
       [] s = "Visual Proof System (PROVIs) ready" -> <<"V","i","s","u","a","l"," ","P","r","o","o","f"," ","S","y","s","t","e","m"," ","(","P","R","O","V","I","s",")"," ","r","e","a","d","y">>
       [] s = "Processing..." -> <<"P","r","o","c","e","s","s","i","n","g",".",".",".">>
       [] OTHER -> << >>
LowerOf(c) ==
     CASE c = "A" -> "a"
       [] c = "B" -> "b"
       [] c = "C" -> "c"
       [] c = "D" -> "d"
       [] c = "E" -> "e"
       [] c = "F" -> "f"
       [] c = "G" -> "g"
       [] c = "H" -> "h"
       [] c = "I" -> "i"
       [] c = "J" -> "j"
       [] c = "K" -> "k"
       [] c = "L" -> "l"
       [] c = "M" -> "m"
       [] c = "N" -> "n"
       [] c = "O" -> "o"
       [] c = "P" -> "p"
       [] c = "Q" -> "q"
       [] c = "R" -> "r"
       [] c = "S" -> "s"
       [] c = "T" -> "t"
       [] c = "U" -> "u"
       [] c = "V" -> "v"
       [] c = "W" -> "w"
       [] c = "X" -> "x"
       [] c = "Y" -> "y"
       [] c = "Z" -> "z"
       [] OTHER -> c

toLowerCase(cs) == [i \in 1..Len(cs) |-> LowerOf(cs[i])]

\* String.prototype.includes
includes(hay, needle) ==
    \E i \in 0..(Len(hay) - Len(needle)) :
        \A k \in 1..Len(needle) : hay[i + k] = needle[k]

\* String.prototype.replace with a string pattern: the first occurrence only
replaceFirst(cs, from, to) ==
    IF \E i \in 1..Len(cs) : cs[i] = from
    THEN LET first == CHOOSE i \in 1..Len(cs) :
                          cs[i] = from /\ \A k \in 1..(i - 1) : cs[k] # from
         IN  [i \in 1..Len(cs) |-> IF i = first THEN to ELSE cs[i]]
    ELSE cs

\* ---------------------------------------------------------------- numbers
\* JavaScript numbers are IEEE 754 doubles. A positive double is held as
\* [m |-> its 53 significand bits, leading bit first, e |-> the binary exponent
\* of the leading bit]; results are rounded to nearest, ties to even.
Precision == 53
Zero == [m |-> << >>, e |-> 0]

RECURSIVE Pow2(_)
Pow2(n) == IF n = 0 THEN 1 ELSE 2 * Pow2(n - 1)

\* the exponent k with 2^k <= num/den < 2^(k+1)
Exponent(num, den) ==
    CHOOSE k \in -16..16 :
        IF k >= 0 THEN den * Pow2(k) <= num /\ num < den * Pow2(k + 1)
        ELSE den <= num * Pow2(-k) /\ num * Pow2(-k) < 2 * den

\* long division: bits, then the next n bits of r/den (r < 2*den), and the
\* remainder, doubled, that is left after them
RECURSIVE DivBits(_, _, _, _)
DivBits(bits, r, den, n) ==
    IF n = 0 THEN [bits |-> bits, rem |-> r]
    ELSE IF r >= den THEN DivBits(Append(bits, 1), 2 * (r - den), den, n - 1)
    ELSE DivBits(Append(bits, 0), 2 * r, den, n - 1)

RECURSIVE ToBits(_)
ToBits(n) == IF n = 0 THEN << >> ELSE Append(ToBits(n \div 2), n % 2)

RECURSIVE BitsToInt(_)
BitsToInt(bits) ==
    IF bits = << >> THEN 0
    ELSE 2 * BitsToInt(SubSeq(bits, 1, Len(bits) - 1)) + bits[Len(bits)]

\* bits plus one unit in the last place
RECURSIVE Increment(_)
Increment(bits) ==
    IF bits = << >> THEN <<1>>
    ELSE IF bits[Len(bits)] = 0 THEN [bits EXCEPT ![Len(bits)] = 1]
    ELSE Append(Increment(SubSeq(bits, 1, Len(bits) - 1)), 0)

\* rounding of the kept bits; half says whether the discarded part is above (1),
\* at (0) or below (-1) half a unit in the last place
Round(bits, e, half) ==
    LET up  == half = 1 \/ (half = 0 /\ bits[Len(bits)] = 1)
        inc == Increment(bits)
    IN  IF ~up THEN [m |-> bits, e |-> e]
        ELSE IF Len(inc) > Len(bits) THEN [m |-> SubSeq(inc, 1, Len(bits)), e |-> e + 1]
        ELSE [m |-> inc, e |-> e]

\* a / b for integers a >= 0 and b > 0
fdiv(a, b) ==
    IF a = 0 THEN Zero
    ELSE LET k   == Exponent(a, b)
             num == IF k >= 0 THEN a ELSE a * Pow2(-k)
             den == IF k >= 0 THEN b * Pow2(k) ELSE b
             d   == DivBits(<< >>, num, den, Precision)
         IN  Round(d.bits, k, IF d.rem > den THEN 1 ELSE IF d.rem = den THEN 0 ELSE -1)

\* bits times the small integer c, from the last bit on: low holds the bits of
\* the product found so far, carry what is still to be added above them
RECURSIVE TimesSmall(_, _, _, _)
TimesSmall(bits, c, carry, low) ==
    IF bits = << >> THEN ToBits(carry) \o low
    ELSE TimesSmall(SubSeq(bits, 1, Len(bits) - 1), c,
                    (bits[Len(bits)] * c + carry) \div 2,
                    <<(bits[Len(bits)] * c + carry) % 2>> \o low)

\* x * c for a double x and a small integer c > 0
fmul(x, c) ==
    IF x = Zero THEN Zero
    ELSE LET prod == TimesSmall(x.m, c, 0, << >>)
             more == Len(prod) - Precision
             tail == BitsToInt(SubSeq(prod, Precision + 1, Len(prod)))
         IN  Round(SubSeq(prod, 1, Precision), x.e + more,
                   IF more = 0 THEN -1
                   ELSE IF tail > Pow2(more - 1) THEN 1
                   ELSE IF tail = Pow2(more - 1) THEN 0 ELSE -1)

\* Math.floor of a double x >= 0 below 2^53
MathFloor(x) == IF x = Zero \/ x.e < 0 THEN 0 ELSE BitsToInt(SubSeq(x.m, 1, x.e + 1))

MathMax(a, b) == IF a >= b THEN a ELSE b

\* Number.prototype.toString for an integer n >= 0, String.prototype.padStart
DigitChar(d) ==
    CASE d = 0 -> "0" [] d = 1 -> "1" [] d = 2 -> "2" [] d = 3 -> "3" [] d = 4 -> "4"
      [] d = 5 -> "5" [] d = 6 -> "6" [] d = 7 -> "7" [] d = 8 -> "8" [] d = 9 -> "9"

RECURSIVE toString(_)
toString(n) == IF n < 10 THEN <<DigitChar(n)>> ELSE Append(toString(n \div 10), DigitChar(n % 10))

RECURSIVE padStart(_, _, _)
padStart(cs, targetLength, padString) ==
    IF Len(cs) >= targetLength THEN cs
    ELSE padStart(<<padString>> \o cs, targetLength, padString)

\* main.js formatTime
formatTimeMain(seconds) ==
    LET mins == seconds \div 60
        secs == seconds % 60
    IN  padStart(toString(mins), 2, "0") \o <<":">> \o padStart(toString(secs), 2, "0")

\* variant: the seconds are not padded
formatTimeUnpadded(seconds) ==
    LET mins == seconds \div 60
        secs == seconds % 60
    IN  padStart(toString(mins), 2, "0") \o <<":">> \o toString(secs)

\* analysis.js formatTime
formatTime(seconds) ==
    LET mins == seconds \div 60
        secs == seconds % 60
    IN  padStart(toString(mins), 2, "0") \o <<":">> \o padStart(toString(secs), 2, "0")

\* the interval callback's estimate: (elapsed / currentProgress) * 100 in doubles;
\* the subtraction of elapsed, an integer below the product, is exact
estimateRemaining(elapsed, currentProgress) ==
    LET totalEstimated == fmul(fdiv(elapsed, currentProgress), 100)
    IN  MathMax(0, MathFloor(totalEstimated) - elapsed)

\* ----------------------------------------------------------- step catalog
ANALYSIS_STEPS == <<
    [key |-> "market_research",       name |-> "Market Research",              duration |-> 600, progress |-> 10],
    [key |-> "avatar_analysis",       name |-> "Avatar Psychology Analysis",   duration |-> 480, progress |-> 25],
    [key |-> "mental_drivers",        name |-> "Mental Drivers Framework",     duration |-> 420, progress |-> 40],
    [key |-> "objection_analysis",    name |-> "Objection Analysis",           duration |-> 360, progress |-> 55],
    [key |-> "provi_system",          name |-> "Visual Proof System (PROVIs)", duration |-> 480, progress |-> 70],
    [key |-> "prepitch_architecture", name |-> "Pre-Pitch Architecture",       duration |-> 360, progress |-> 85],
    [key |-> "report_generation",     name |-> "Report Generation",            duration |-> 300, progress |-> 95],
    [key |-> "pdf_generation",        name |-> "PDF Generation",               duration |-> 120, progress |-> 100] >>

StepKeys == {ANALYSIS_STEPS[i].key : i \in DOMAIN ANALYSIS_STEPS}

StepConfig(k) == ANALYSIS_STEPS[CHOOSE i \in DOMAIN ANALYSIS_STEPS : ANALYSIS_STEPS[i].key = k]

\* variant: the last matching catalog entry is returned
getCurrentStepKeyLast(message) ==
    IF message = Null \/ message = "" THEN Null
    ELSE LET lowerMessage == toLowerCase(Chars(message))
             hit(i) == \/ includes(lowerMessage, replaceFirst(Chars(ANALYSIS_STEPS[i].key), "_", " "))
                       \/ includes(lowerMessage, toLowerCase(Chars(ANALYSIS_STEPS[i].name)))
         IN  IF \E i \in DOMAIN ANALYSIS_STEPS : hit(i)
             THEN ANALYSIS_STEPS[CHOOSE i \in DOMAIN ANALYSIS_STEPS :
                                     hit(i) /\ \A k \in (i + 1)..Len(ANALYSIS_STEPS) : ~hit(k)].key
             ELSE Null

\* getCurrentStepKey: first catalog entry whose key (first "_" read as a
\* space) or lower-cased name occurs in the lower-cased message
getCurrentStepKey(message) ==
    IF message = Null \/ message = "" THEN Null
    ELSE LET lowerMessage == toLowerCase(Chars(message))
             hit(i) == \/ includes(lowerMessage, replaceFirst(Chars(ANALYSIS_STEPS[i].key), "_", " "))
                       \/ includes(lowerMessage, toLowerCase(Chars(ANALYSIS_STEPS[i].name)))
         IN  IF \E i \in DOMAIN ANALYSIS_STEPS : hit(i)
             THEN ANALYSIS_STEPS[CHOOSE i \in DOMAIN ANALYSIS_STEPS :
                                     hit(i) /\ \A k \in 1..(i - 1) : ~hit(k)].key
             ELSE Null

\* ------------------------------------------------------------------ state
VARIABLES
    page,           \* analysis.js: module globals and the DOM state it owns
    polls,          \* one record per startProgressPolling call (poll closure)
    analysisSocket, \* analysis.js: initializeWebSocket has created a socket
    joined,         \* rooms the page socket has asked the server to join
    ioAvailable,    \* typeof io !== 'undefined'
    spent,          \* status requests issued plus push events delivered
    now,            \* wall clock, whole seconds
    hist,           \* handler runs of the current tracking session (observation)
    lastOp,         \* the page operation that produced the current state
    ws,             \* websocket.js: the fields of the WebSocketManager instance
    socks,          \* connection status of every socket the manager created
    out,            \* what the last manager operation sent, showed and invoked
    asked,          \* rooms asked for with joinAnalysis while not connected (observation)
    wsOp,           \* the manager operation that produced the current state
    sio,            \* socket.io's reconnection cycle of every socket the manager created
    server          \* what GET /api/analysis_status reports for the tracked job

pageVars == <<page, polls, analysisSocket, joined, ioAvailable, spent, now, hist, lastOp,
              server>>
wsVars == <<ws, socks, out, asked, wsOp, sio>>
vars == <<page, polls, analysisSocket, joined, ioAvailable, spent, now, hist, lastOp,
          ws, socks, out, asked, wsOp, sio, server>>

\* ------------------------------------------- what the server may report
Percents == {0, 5, 10}
\* free-text status label reported with a percentage (current_step)
SrvLabel(pc) ==
    CASE pc = 0 -> Null
      [] pc = 5 -> "Starting market research"
      [] pc = 10 -> "Deep AVATAR ANALYSIS pass"
      [] OTHER -> "Finalizing"
\* structured stage key of the push event (step)
SrvStep(pc) ==
    CASE pc = 5 -> "market_research"
      [] pc = 10 -> "avatar_analysis"
      [] OTHER -> Null
ErrTexts == {"timeout", Null}

\* bodies of GET /api/analysis_status/<id>
StatusBodies ==
    {[status |-> "queued", progress |-> 0, current_step |-> Null, error_message |-> Null]}
    \cup {[status |-> "processing", progress |-> pc, current_step |-> SrvLabel(pc),
           error_message |-> Null] : pc \in Percents}
    \cup {[status |-> "completed", progress |-> 100, current_step |-> Null,
           error_message |-> Null]}
    \cup {[status |-> "error", progress |-> 0, current_step |-> Null,
           error_message |-> e] : e \in ErrTexts}

Queued == [status |-> "queued", progress |-> 0, current_step |-> Null, error_message |-> Null]
Processing(pc) ==
    [status |-> "processing", progress |-> pc, current_step |-> SrvLabel(pc),
     error_message |-> Null]
Completed ==
    [status |-> "completed", progress |-> 100, current_step |-> Null, error_message |-> Null]
Failed(e) == [status |-> "error", progress |-> 0, current_step |-> Null, error_message |-> e]

\* the job as the server runs it: queued, processing with a growing
\* percentage, then completed; it may fail at any point before completion
ServerAfter(b) ==
    (CASE b.status = "queued" -> {Processing(0)}
       [] b.status = "processing" ->
              {Processing(pc) : pc \in {q \in Percents : q > b.progress}} \cup {Completed}
       [] OTHER -> {})
    \cup (IF b.status \in {"completed", "error"} THEN {} ELSE {Failed(e) : e \in ErrTexts})

\* -------------------------------------------------------------- analysis.js
FeedEntry(msg) == [ts |-> now, msg |-> msg]

\* variant: over the limit the newest item is dropped, not the first
addFeedItemDropNewest(p, msg) ==
    LET appended == Append(p.feed, FeedEntry(msg))
    IN  [p EXCEPT !.feed = IF Len(appended) > FeedLimit
                           THEN SubSeq(appended, 1, FeedLimit) ELSE appended]

\* addFeedItem: append, then drop the first item when more than 50 are held
addFeedItem(p, msg) ==
    LET appended == Append(p.feed, FeedEntry(msg))
    IN  [p EXCEPT !.feed = IF Len(appended) > FeedLimit THEN Tail(appended) ELSE appended]

\* updateStepIndicators: the class given to every timeline item
\* variant: the current step is marked active before the threshold is looked at
updateStepIndicatorsActiveFirst(currentStepKey, progress) ==
    [k \in StepKeys |->
        IF k = currentStepKey THEN "active"
        ELSE IF progress >= StepConfig(k).progress THEN "completed"
        ELSE "pending"]

\* updateStepIndicators: the class each .step-item ends with
updateStepIndicators(currentStepKey, progress) ==
    [k \in StepKeys |->
        IF progress >= StepConfig(k).progress THEN "completed"
        ELSE IF k = currentStepKey THEN "active"
        ELSE "pending"]

updateProgress(p, percentage, message, step) ==
    addFeedItem(
        [p EXCEPT !.width       = percentage,
                  !.pct         = percentage,
                  !.title       = IF message # Null THEN message ELSE @,
                  !.description = IF step # Null /\ step \in StepKeys THEN step ELSE @,
                  !.steps       = updateStepIndicators(step, percentage)],
        <<message>>)

\* variant: the error surface shows a fixed text in place of the message
showErrorGeneric(p, message) ==
    addFeedItem(
        [p EXCEPT !.errorVisible     = TRUE,
                  !.errorMessage     = "Analysis failed",
                  !.progressInterval = FALSE],
        <<"ERROR: ", "Analysis failed">>)

showError(p, message) ==
    addFeedItem(
        [p EXCEPT !.errorVisible     = TRUE,
                  !.errorMessage     = message,
                  !.progressInterval = FALSE],
        <<"ERROR: ", message>>)

\* (animateCompletion marks every step completed, which updateProgress(100)
\* has already done: every threshold is at most 100)
handleAnalysisComplete(p, data) ==
    addFeedItem(
        [updateProgress([p EXCEPT !.progressInterval = FALSE],
                        100, "Analysis completed successfully!", Null)
            EXCEPT !.viewReport = TRUE],
        <<"Analysis completed successfully! Report is ready for viewing.">>)

\* variant: the restart keeps the feed and puts its line on top of it
restartAnalysisKeepFeed(p) ==
    [p EXCEPT !.width     = 0,
              !.pct       = 0,
              !.steps     = [k \in StepKeys |-> "pending"],
              !.feed      = Append(@, FeedEntry(<<"Analysis restarted">>)),
              !.startTime = now]

\* restartAnalysis up to its startProgressPolling call (see RetryClick)
restartAnalysis(p) ==
    [p EXCEPT !.width     = 0,
              !.pct       = 0,
              !.steps     = [k \in StepKeys |-> "pending"],
              !.feed      = <<FeedEntry(<<"Analysis restarted">>)>>,
              !.startTime = now]

\* variant: the first request goes out for the job that was active before
NewPollForPrevious(id, by) ==
    [st |-> "fetching", job |-> page.analysisId, issued |-> 1, by |-> by, id |-> id]

\* startProgressPolling: a new poll closure whose first request is issued at once
NewPoll(id, by) == [st |-> "fetching", job |-> id, issued |-> 1, by |-> by, id |-> id]

\* variant: the closure never schedules the next request
AfterResponseOnce(status) == "stopped"

\* variant: the closure stops at the first processing response as well
AfterResponseUntilProgress(status) ==
    IF status \in {"completed", "error", "processing"} THEN "stopped" ELSE "timer"

\* variant: the next request is scheduled inside the processing branch only
AfterResponseOnlyProcessing(status) ==
    IF status = "processing" THEN "timer" ELSE "stopped"

\* variant: the completed branch falls through to setTimeout
AfterResponseNoReturn(status) ==
    IF status = "error" THEN "stopped" ELSE "timer"

\* what the poll closure does after it has handled a response:
\* return (completed, error) or setTimeout(poll, pollInterval)
AfterResponse(status) ==
    IF status \in {"completed", "error"} THEN "stopped" ELSE "timer"

\* the poll closure's catch block
OnPollFailure(p) == showError(p, "Failed to get analysis status")

\* variant: the catch block schedules the next request
AfterFailureRetry == "timer"

\* after the catch block nothing is scheduled
AfterFailure == "stopped"

\* completions, errors: runs of handleAnalysisComplete and showError since
\* tracking was (re)started; pushTerminal: one of them came from a push event;
\* served: the server's terminal push event has been delivered
NewSession(served) ==
    [completions |-> 0, errors |-> 0, pushTerminal |-> FALSE, served |-> served]
Terminal == hist.completions + hist.errors > 0
Op(n, l) == [name |-> n, loop |-> l]

InitPage ==
    /\ page = [analysisId |-> Null, startTime |-> Null, progressInterval |-> FALSE,
               width |-> 0, pct |-> 0, title |-> Null, description |-> Null,
               steps |-> [k \in StepKeys |-> "pending"], feed |-> << >>,
               errorVisible |-> FALSE, errorMessage |-> Null, viewReport |-> FALSE,
               retryListeners |-> 0, elapsedTime |-> << >>, remainingTime |-> << >>]
    /\ polls = << >>
    /\ analysisSocket = FALSE
    /\ joined = {}
    /\ ioAvailable \in BOOLEAN
    /\ spent = 0
    /\ now = 0
    /\ hist = NewSession(FALSE)
    /\ lastOp = Op("init", 0)
    /\ server = Queued

\* initializeAnalysisTracking(id)
InitializeAnalysisTracking(id) ==
    /\ \A i \in DOMAIN polls : ~(polls[i].by = "track" /\ polls[i].id = id)
    /\ Len(polls) < MaxLoops
    /\ spent < MaxEvents
    /\ page' = [updateProgress([page EXCEPT !.analysisId = id],
                               0, "Initializing analysis...", Null)
                  EXCEPT !.retryListeners = @ + 1]
    /\ polls' = Append(polls, NewPoll(id, "track"))
    /\ spent' = spent + 1
    /\ hist' = NewSession(hist.served)
    /\ lastOp' = Op("initializeAnalysisTracking", Len(polls) + 1)
    /\ UNCHANGED <<analysisSocket, joined, ioAvailable, now>>
    /\ UNCHANGED <<wsVars, server>>

\* startTimeTracking(startTimeISO)
StartTimeTracking(t) ==
    /\ page' = [page EXCEPT !.startTime = t, !.progressInterval = TRUE]
    /\ lastOp' = Op("startTimeTracking", 0)
    /\ UNCHANGED <<polls, analysisSocket, joined, ioAvailable, spent, now, hist>>
    /\ UNCHANGED <<wsVars, server>>

\* analysis.js initializeWebSocket(id)
PageInitializeWebSocket(id) ==
    /\ page' = [page EXCEPT !.analysisId = id]
    /\ analysisSocket' = (analysisSocket \/ ioAvailable)
    /\ lastOp' = Op("initializeWebSocket", 0)
    /\ UNCHANGED <<polls, joined, ioAvailable, spent, now, hist>>
    /\ UNCHANGED <<wsVars, server>>

\* analysisSocket 'connect': join the room of the tracked job
PageSocketConnect ==
    /\ analysisSocket
    /\ joined' = joined \cup {page.analysisId}
    /\ lastOp' = Op("connect", 0)
    /\ UNCHANGED <<page, polls, analysisSocket, ioAvailable, spent, now, hist>>
    /\ UNCHANGED <<wsVars, server>>

\* the retry button's click listeners: one per setupErrorHandling call, each
\* hides the error section and calls restartAnalysis
RECURSIVE ClickRetry(_, _)
ClickRetry(p, n) ==
    IF n = 0 THEN p
    ELSE ClickRetry(restartAnalysis([p EXCEPT !.errorVisible = FALSE]), n - 1)

\* variant: the restart does not start polling
RestartedPollsNone(id, n) == << >>

\* the poll closures started by n restartAnalysis calls
RestartedPolls(id, n) == [i \in 1..n |-> NewPoll(id, "restart")]

\* click on #retry-analysis (revealed with the error section)
RetryClick ==
    /\ page.errorVisible
    /\ page.retryListeners > 0
    /\ Len(polls) + page.retryListeners <= MaxLoops
    /\ spent + page.retryListeners <= MaxEvents
    /\ page' = ClickRetry(page, page.retryListeners)
    /\ polls' = polls \o RestartedPolls(page.analysisId, page.retryListeners)
    /\ spent' = spent + page.retryListeners
    /\ hist' = NewSession(hist.served)
    /\ lastOp' = Op("restartAnalysis", Len(polls) + 1)
    /\ UNCHANGED <<analysisSocket, joined, ioAvailable, now>>
    /\ UNCHANGED <<wsVars, server>>

\* poll closure l: fetch or response.json() rejects -> catch
PollFail(l) ==
    /\ l \in DOMAIN polls
    /\ polls[l].st = "fetching"
    /\ page' = OnPollFailure(page)
    /\ polls' = [polls EXCEPT ![l].st = AfterFailure]
    /\ hist' = [hist EXCEPT !.errors = @ + 1]
    /\ lastOp' = Op("pollFail", l)
    /\ UNCHANGED <<analysisSocket, joined, ioAvailable, spent, now>>
    /\ UNCHANGED <<wsVars, server>>

\* poll closure l: the response body data is handled
PollResponse(l, data) ==
    /\ l \in DOMAIN polls
    /\ polls[l].st = "fetching"
    /\ polls' = [polls EXCEPT ![l].st = AfterResponse(data.status)]
    /\ \/ /\ data.status = "completed"
          /\ page' = handleAnalysisComplete(page, data)
          /\ hist' = [hist EXCEPT !.completions = @ + 1]
          /\ lastOp' = Op("pollComplete", l)
       \/ /\ data.status = "error"
          /\ page' = showError(page, IF data.error_message # Null
                                     THEN data.error_message ELSE "Analysis failed")
          /\ hist' = [hist EXCEPT !.errors = @ + 1]
          /\ lastOp' = Op("pollError", l)
       \/ /\ data.status = "processing"
          /\ page' = updateProgress(page,
                         data.progress,
                         IF data.current_step \notin {Null, ""}
                         THEN data.current_step ELSE "Processing...",
                         getCurrentStepKey(data.current_step))
          /\ hist' = hist
          /\ lastOp' = Op("pollProgress", l)
       \/ /\ data.status \notin {"completed", "error", "processing"}
          /\ page' = page
          /\ hist' = hist
          /\ lastOp' = Op("pollOther", l)
    /\ UNCHANGED <<analysisSocket, joined, ioAvailable, spent, now>>
    /\ UNCHANGED <<wsVars, server>>

\* poll closure l: the response carries what the server reports at that moment
PollServed(l) == PollResponse(l, server)

\* status labels the server may report with a percentage
Labels ==
    {Null, "", "Starting market research", "Deep AVATAR ANALYSIS pass", "Finalizing",
     "Objection analysis after avatar analysis", "Visual Proof System (PROVIs) ready",
     "market_research"}

\* the server reports the running job under another status label
ServerRelabel(label) ==
    /\ server.status \in {"queued", "processing"}
    /\ server' = [Processing(5) EXCEPT !.current_step = label]
    /\ UNCHANGED <<page, polls, analysisSocket, joined, ioAvailable, spent, now, hist, lastOp>>
    /\ UNCHANGED wsVars

\* the job advances at the server
ServerStep ==
    /\ server' \in ServerAfter(server)
    /\ UNCHANGED <<page, polls, analysisSocket, joined, ioAvailable, spent, now, hist, lastOp>>
    /\ UNCHANGED wsVars

\* poll closure l: the setTimeout(poll, pollInterval) callback issues a request
PollTimer(l) ==
    /\ l \in DOMAIN polls
    /\ polls[l].st = "timer"
    /\ spent < MaxEvents
    /\ polls' = [polls EXCEPT ![l].st = "fetching", ![l].job = page.analysisId,
                              ![l].issued = @ + 1]
    /\ spent' = spent + 1
    /\ lastOp' = Op("pollTimer", l)
    /\ UNCHANGED <<page, analysisSocket, joined, ioAvailable, now, hist>>
    /\ UNCHANGED <<wsVars, server>>

\* ------------------------------------------------ push events (page socket)
\* the server sends room j's events to a socket that joined room j; a progress
\* event may arrive late, again, or out of order, the terminal event once
CanPush(j) == analysisSocket /\ j \in joined /\ spent < MaxEvents

\* variant: the progress handler does not compare the event's job with the tracked one
PushProgressAnyJob(j, pc) ==
    /\ CanPush(j)
    /\ page' = updateProgress(page, pc, SrvLabel(pc), SrvStep(pc))
    /\ spent' = spent + 1
    /\ lastOp' = Op("pushProgress", 0)
    /\ UNCHANGED <<polls, analysisSocket, joined, ioAvailable, now, hist>>
    /\ UNCHANGED <<wsVars, server>>

\* analysisSocket.on('analysis_progress')
PushProgress(j, pc) ==
    /\ CanPush(j)
    /\ page' = IF j = page.analysisId
               THEN updateProgress(page, pc, SrvLabel(pc), SrvStep(pc))
               ELSE page
    /\ spent' = spent + 1
    /\ lastOp' = Op("pushProgress", 0)
    /\ UNCHANGED <<polls, analysisSocket, joined, ioAvailable, now, hist>>
    /\ UNCHANGED <<wsVars, server>>

\* percentages and stage keys (data.progress, data.step) of progress events
StepPercents == {0, 10, 30, 55, 100}
StepChoices == StepKeys \cup {Null}

\* analysisSocket.on('analysis_progress') for an event with any stage key
PushStep(j, pc, step) ==
    /\ CanPush(j)
    /\ page' = IF j = page.analysisId
               THEN updateProgress(page, pc, "Processing...", step)
               ELSE page
    /\ spent' = spent + 1
    /\ lastOp' = Op("pushProgress", 0)
    /\ UNCHANGED <<polls, analysisSocket, joined, ioAvailable, now, hist>>
    /\ UNCHANGED <<wsVars, server>>

\* analysisSocket.on('analysis_complete')
PushComplete(j) ==
    /\ CanPush(j)
    /\ ~hist.served
    /\ IF j = page.analysisId
       THEN /\ page' = handleAnalysisComplete(page, [report_word_count |-> 12345])
            /\ hist' = [hist EXCEPT !.completions = @ + 1, !.pushTerminal = TRUE,
                                    !.served = TRUE]
       ELSE /\ page' = page
            /\ hist' = [hist EXCEPT !.served = TRUE]
    /\ spent' = spent + 1
    /\ lastOp' = Op("pushComplete", 0)
    /\ UNCHANGED <<polls, analysisSocket, joined, ioAvailable, now>>
    /\ UNCHANGED <<wsVars, server>>

\* analysisSocket.on('analysis_error')
PushError(j, e) ==
    /\ CanPush(j)
    /\ ~hist.served
    /\ IF j = page.analysisId
       THEN /\ page' = showError(page, e)
            /\ hist' = [hist EXCEPT !.errors = @ + 1, !.pushTerminal = TRUE,
                                    !.served = TRUE]
       ELSE /\ page' = page
            /\ hist' = [hist EXCEPT !.served = TRUE]
    /\ spent' = spent + 1
    /\ lastOp' = Op("pushError", 0)
    /\ UNCHANGED <<polls, analysisSocket, joined, ioAvailable, now>>
    /\ UNCHANGED <<wsVars, server>>

\* instants (seconds, page load = 0) at which the server says the job started
StartTimes == {0, -23, -59, -5999}

\* a second passes
Tick ==
    /\ now < MaxNow
    /\ now' = now + 1
    /\ lastOp' = Op("tick", 0)
    /\ UNCHANGED <<page, polls, analysisSocket, joined, ioAvailable, spent, hist>>
    /\ UNCHANGED <<wsVars, server>>

\* the setInterval callback of startTimeTracking (which has set startTime):
\* elapsed time, and the remaining time while the progress bar's width is
\* between 0 and 100
TimeRefresh ==
    /\ page.progressInterval
    /\ LET elapsed == now - page.startTime
           currentProgress == page.width
       IN  page' = [page EXCEPT
                       !.elapsedTime = formatTime(elapsed),
                       !.remainingTime =
                           IF currentProgress > 0 /\ currentProgress < 100
                           THEN formatTime(estimateRemaining(elapsed, currentProgress))
                           ELSE @]
    /\ lastOp' = Op("timeRefresh", 0)
    /\ UNCHANGED <<polls, analysisSocket, joined, ioAvailable, spent, now, hist>>
    /\ UNCHANGED <<wsVars, server>>

\* window.AnalysisPage.updateProgress, the page's exported entry point, called
\* by another script with the fields of a progress event
AnalysisPageUpdateProgress(pc) ==
    /\ page' = updateProgress(page, pc, SrvLabel(pc), SrvStep(pc))
    /\ lastOp' = Op("updateProgress", 0)
    /\ UNCHANGED <<polls, analysisSocket, joined, ioAvailable, spent, now, hist>>
    /\ UNCHANGED <<wsVars, server>>

\* the server's progress event for the tracked job reaches the page socket:
\* lost (never delivered), delivered again, or delivered after the job has moved
\* on, so pc is any percentage the server has reported so far; the poll loop's
\* next request is not counted out by it
ServerPush(pc) ==
    /\ server.status = "processing"
    /\ pc <= server.progress
    /\ spent + 1 < MaxEvents
    /\ \E j \in Tracked : PushProgress(j, pc)

\* the server's analysis_error event for the tracked job, sent once the job
\* has failed, carrying the error text the status endpoint reports
ServerPushError ==
    /\ server.status = "error"
    /\ \E j \in Tracked : PushError(j, server.error_message)

NextPage ==
    \/ \E id \in Tracked : InitializeAnalysisTracking(id)
    \/ \E t \in 0..now : StartTimeTracking(t)
    \/ \E id \in Tracked : PageInitializeWebSocket(id)
    \/ PageSocketConnect
    \/ RetryClick
    \/ \E l \in 1..MaxLoops : PollFail(l)
    \/ \E l \in 1..MaxLoops, data \in StatusBodies : PollResponse(l, data)
    \/ \E l \in 1..MaxLoops : PollTimer(l)
    \/ \E j \in Jobs, pc \in Percents \ {0} : PushProgress(j, pc)
    \/ \E j \in Jobs : PushComplete(j)
    \/ \E j \in Jobs : PushError(j, "timeout")


\* ------------------------------------------------------------- websocket.js
maxReconnectAttempts == 5
EventNames == {"ws_connected", "ws_disconnected"}

Range(s) == {s[i] : i \in DOMAIN s}
\* Set.prototype.add / delete on an insertion-ordered Set
\* variant: add() that does not look for the element first
SetAddAgain(s, x) == Append(s, x)

\* Set.prototype.add / delete on an insertion-ordered Set
SetAdd(s, x) == IF x \in Range(s) THEN s ELSE Append(s, x)
SetDelete(s, x) == SelectSeq(s, LAMBDA y : y # x)

\* a manager run: the fields (w) and what the run has sent, shown, invoked (out)
Emitted(ev, id, sock) == [k |-> "emit", ev |-> ev, id |-> id, on |-> sock]
Shown(msg, type) == [k |-> "status", ev |-> msg, id |-> type, on |-> 0]
Invoked(ev, h) == [k |-> "handler", ev |-> ev, id |-> h.id, on |-> 0]
Caught(ev, h) == [k |-> "caught", ev |-> ev, id |-> h.id, on |-> 0]
Thrown(what) == [k |-> "uncaught", ev |-> what, id |-> Null, on |-> 0]
Log(m, e) == [m EXCEPT !.out = Append(@, e)]

\* socket.emit on the manager's current socket
socketEmit(m, ev, id) == Log(m, Emitted(ev, id, m.w.socket))

showConnectionStatus(m, msg, type) == Log(m, Shown(msg, type))

\* variant: the room is retained although nothing can be sent
joinAnalysisRetaining(m, analysisId) ==
    IF m.w.socket = 0 \/ ~m.w.isConnected
    THEN [m EXCEPT !.w.analysisRooms = SetAdd(@, analysisId)]
    ELSE [socketEmit(m, "join_analysis", analysisId)
            EXCEPT !.w.analysisRooms = SetAdd(@, analysisId)]

joinAnalysis(m, analysisId) ==
    IF m.w.socket = 0 \/ ~m.w.isConnected
    THEN m
    ELSE [socketEmit(m, "join_analysis", analysisId)
            EXCEPT !.w.analysisRooms = SetAdd(@, analysisId)]

joinAnalysisResult(w) == ~(w.socket = 0 \/ ~w.isConnected)

leaveAnalysis(m, analysisId) ==
    IF m.w.socket = 0
    THEN m
    ELSE [socketEmit(m, "leave_analysis", analysisId)
            EXCEPT !.w.analysisRooms = SetDelete(@, analysisId)]

\* rejoinAnalysisRooms: forEach over the retained rooms, in insertion order;
\* this.socket.emit on a null socket throws
RECURSIVE rejoinFrom(_, _)
rejoinFrom(m, rooms) ==
    IF rooms = << >> THEN m
    ELSE IF m.w.socket = 0 THEN Log(m, Thrown("TypeError"))
    ELSE rejoinFrom(socketEmit(m, "join_analysis", Head(rooms)), Tail(rooms))

rejoinAnalysisRooms(m) == rejoinFrom(m, m.w.analysisRooms)

\* variant: the new handler is put in front of the registered ones
onFront(w, event, handler) == [w EXCEPT !.eventHandlers[event] = <<handler>> \o @]

\* on(event, handler)
on(w, event, handler) == [w EXCEPT !.eventHandlers[event] = Append(@, handler)]

\* handlers.indexOf(handler): the first position holding it, 0 when there is none
indexOf(hs, handler) ==
    IF handler \notin Range(hs) THEN 0
    ELSE CHOOSE i \in DOMAIN hs :
             hs[i] = handler /\ \A k \in 1..(i - 1) : hs[k] # handler

\* handlers.splice(index, 1)
splice(hs, index) == SubSeq(hs, 1, index - 1) \o SubSeq(hs, index + 1, Len(hs))

\* off(event, handler)
off(w, event, handler) ==
    IF event \notin DOMAIN w.eventHandlers THEN w
    ELSE IF indexOf(w.eventHandlers[event], handler) = 0 THEN w
    ELSE [w EXCEPT !.eventHandlers[event] = splice(@, indexOf(@, handler))]

\* one registered handler is called inside triggerEvent's try/catch
CallHandler(m, event, h) ==
    LET m1 == Log(m, Invoked(event, h)) IN
    CASE h.kind = "join"     -> joinAnalysis(m1, h.id)
      [] h.kind = "throwing" -> Log(m1, Caught(event, h))
      [] OTHER               -> m1

\* variant: the first handler that throws ends the dispatch
RECURSIVE RunHandlersAbort(_, _, _)
RunHandlersAbort(m, event, hs) ==
    IF hs = << >> THEN m
    ELSE IF Head(hs).kind = "throwing" THEN Log(Log(m, Invoked(event, Head(hs))), Thrown("Error"))
    ELSE RunHandlersAbort(CallHandler(m, event, Head(hs)), event, Tail(hs))

\* triggerEvent: handlers.forEach in registration order
RECURSIVE RunHandlers(_, _, _)
RunHandlers(m, event, hs) ==
    IF hs = << >> THEN m
    ELSE RunHandlers(CallHandler(m, event, Head(hs)), event, Tail(hs))

triggerEvent(m, event) ==
    IF event \notin DOMAIN m.w.eventHandlers THEN m
    ELSE RunHandlers(m, event, m.w.eventHandlers[event])

\* variant: the ws_connected handlers run before the rooms are rejoined
onConnectHandlersFirst(m) ==
    LET m1 == [m EXCEPT !.w.isConnected = TRUE, !.w.reconnectAttempts = 0]
        m2 == showConnectionStatus(m1, "Connected to server", "success")
    IN  rejoinAnalysisRooms(triggerEvent(m2, "ws_connected"))

\* variant: the connect handler leaves the attempt counter as it is
onConnectKeepAttempts(m) ==
    LET m1 == [m EXCEPT !.w.isConnected = TRUE]
        m2 == showConnectionStatus(m1, "Connected to server", "success")
    IN  triggerEvent(rejoinAnalysisRooms(m2), "ws_connected")

\* socket.on('connect', ...)
onConnect(m) ==
    LET m1 == [m EXCEPT !.w.isConnected = TRUE, !.w.reconnectAttempts = 0]
        m2 == showConnectionStatus(m1, "Connected to server", "success")
        m3 == rejoinAnalysisRooms(m2)
    IN  IF m3.out # << >> /\ m3.out[Len(m3.out)].k = "uncaught"
        THEN m3
        ELSE triggerEvent(m3, "ws_connected")

\* socket.on('disconnect', ...)
onDisconnect(m) ==
    triggerEvent(
        showConnectionStatus([m EXCEPT !.w.isConnected = FALSE],
                             "Disconnected from server", "warning"),
        "ws_disconnected")

\* socket.on('connect_error', ...)
onConnectError(m) ==
    triggerEvent(showConnectionStatus(m, "Connection error", "error"), "ws_error")

\* socket.on('reconnect', ...)
onReconnect(m) ==
    triggerEvent(showConnectionStatus(m, "Reconnected to server", "success"),
                 "ws_reconnected")

\* socket.on('reconnect_error', ...)
onReconnectError(m) ==
    LET m1 == [m EXCEPT !.w.reconnectAttempts = @ + 1]
    IN  IF m1.w.reconnectAttempts >= maxReconnectAttempts
        THEN showConnectionStatus(m1, "Failed to reconnect", "error")
        ELSE m1

\* the handlers setupConnectionMonitoring registers at DOMContentLoaded
Monitor == [kind |-> "plain", id |-> "monitor"]

Run(w) == [w |-> w, out |-> << >>]
WsOp(n, id, s, re, ret) == [name |-> n, id |-> id, sock |-> s, re |-> re, ret |-> ret]

InitWs ==
    /\ ws = [socket |-> 0, reconnectAttempts |-> 0, isConnected |-> FALSE,
             eventHandlers |-> [e \in EventNames |-> <<Monitor>>], analysisRooms |-> << >>]
    /\ socks = << >>
    /\ out = << >>
    /\ asked = {}
    /\ wsOp = WsOp("init", Null, 0, FALSE, FALSE)
    /\ sio = << >>

\* initialize(): io({...}) creates a socket, setupEventHandlers wires it
\* (io is taken not to throw, so the catch branch is not taken)
initialize(w, s) == IF ioAvailable THEN [w EXCEPT !.socket = s] ELSE w

\* io({reconnection: true, reconnectionAttempts: this.maxReconnectAttempts}):
\* the library's reconnection cycle of one socket: failed attempts so far
\* (tries), whether connect_error / the failure notice was seen in this cycle
\* (erred, failed), and whether a 'reconnect' event is still to be fired (pend)
NewCycle == [tries |-> 0, erred |-> FALSE, failed |-> FALSE, pend |-> FALSE]
StillTrying(s) == sio[s].tries < maxReconnectAttempts
Reconnecting(s) == socks[s] = "disconnected" \/ sio[s].tries > 0

Initialize ==
    /\ Len(socks) < MaxWsSockets
    /\ ws' = initialize(ws, Len(socks) + 1)
    /\ socks' = IF ioAvailable THEN Append(socks, "connecting") ELSE socks
    /\ sio' = IF ioAvailable THEN Append(sio, NewCycle) ELSE sio
    /\ out' = << >>
    /\ wsOp' = WsOp("initialize", Null, ws'.socket, FALSE, ioAvailable)
    /\ UNCHANGED <<asked>>
    /\ UNCHANGED pageVars

\* websocket.js initializeWebSocket(analysisId)
WsInitializeWebSocket(analysisId) ==
    /\ Len(socks) < MaxWsSockets
    /\ Len(ws.eventHandlers["ws_connected"]) < MaxHandlers
    /\ LET w1 == initialize(ws, Len(socks) + 1)
           m  == IF ~ioAvailable THEN Run(w1)
                 ELSE IF w1.isConnected THEN joinAnalysis(Run(w1), analysisId)
                 ELSE Run(on(w1, "ws_connected", [kind |-> "join", id |-> analysisId]))
       IN  /\ ws' = m.w
           /\ out' = m.out
    /\ socks' = IF ioAvailable THEN Append(socks, "connecting") ELSE socks
    /\ sio' = IF ioAvailable THEN Append(sio, NewCycle) ELSE sio
    /\ wsOp' = WsOp("initializeWebSocket", analysisId, ws'.socket, FALSE, ioAvailable)
    /\ UNCHANGED <<asked>>
    /\ UNCHANGED pageVars

\* socket s fires 'connect' (first connection, or socket.io reconnected it)
SocketConnect(s) ==
    /\ s \in DOMAIN socks
    /\ socks[s] \in {"connecting", "disconnected"}
    /\ StillTrying(s)
    /\ socks' = [socks EXCEPT ![s] = "connected"]
    /\ sio' = [sio EXCEPT ![s] = [NewCycle EXCEPT !.tries = sio[s].tries,
                                                  !.pend = Reconnecting(s)]]
    /\ LET m == onConnect(Run(ws)) IN ws' = m.w /\ out' = m.out
    /\ asked' = {}
    /\ wsOp' = WsOp("connect", Null, s, socks[s] = "disconnected", TRUE)
    /\ UNCHANGED pageVars

\* socket s fires 'disconnect' (transport lost; socket.io will try to reconnect)
SocketDisconnect(s) ==
    /\ s \in DOMAIN socks
    /\ socks[s] = "connected"
    /\ socks' = [socks EXCEPT ![s] = "disconnected"]
    /\ sio' = [sio EXCEPT ![s] = NewCycle]
    /\ LET m == onDisconnect(Run(ws)) IN ws' = m.w /\ out' = m.out
    /\ wsOp' = WsOp("disconnect", Null, s, FALSE, TRUE)
    /\ UNCHANGED <<asked>>
    /\ UNCHANGED pageVars

\* socket s fires 'reconnect' after the 'connect' of a successful reconnection
SocketReconnect(s) ==
    /\ s \in DOMAIN socks
    /\ socks[s] = "connected"
    /\ sio[s].pend
    /\ sio' = [sio EXCEPT ![s].pend = FALSE]
    /\ LET m == onReconnect(Run(ws)) IN ws' = m.w /\ out' = m.out
    /\ wsOp' = WsOp("reconnected", Null, s, TRUE, TRUE)
    /\ UNCHANGED <<socks, asked>>
    /\ UNCHANGED pageVars

\* socket s fires 'connect_error': an attempt to open the connection failed
SocketConnectError(s) ==
    /\ s \in DOMAIN socks
    /\ socks[s] \in {"connecting", "disconnected"}
    /\ StillTrying(s)
    /\ sio' = [sio EXCEPT ![s].erred = TRUE]
    /\ LET m == onConnectError(Run(ws)) IN ws' = m.w /\ out' = m.out
    /\ wsOp' = WsOp("connect_error", Null, s, sio[s].erred, TRUE)
    /\ UNCHANGED <<socks, asked>>
    /\ UNCHANGED pageVars

\* socket s fires 'reconnect_error': a reconnection attempt failed; the library
\* makes at most reconnectionAttempts of them in one cycle
SocketReconnectError(s) ==
    /\ s \in DOMAIN socks
    /\ socks[s] \in {"connecting", "disconnected"}
    /\ StillTrying(s)
    /\ ws.reconnectAttempts < MaxCounted
    /\ LET m == onReconnectError(Run(ws))
       IN  /\ ws' = m.w
           /\ out' = m.out
           /\ sio' = [sio EXCEPT ![s].tries = @ + 1,
                                 ![s].failed = @ \/ m.out # << >>]
    /\ wsOp' = WsOp("reconnect_error", Null, s, sio[s].failed, TRUE)
    /\ UNCHANGED <<socks, asked>>
    /\ UNCHANGED pageVars

\* wsManager.joinAnalysis(analysisId)
JoinAnalysis(analysisId) ==
    /\ LET m == joinAnalysis(Run(ws), analysisId) IN ws' = m.w /\ out' = m.out
    /\ asked' = IF joinAnalysisResult(ws) THEN asked ELSE asked \cup {analysisId}
    /\ wsOp' = WsOp("joinAnalysis", analysisId, ws.socket,
                    analysisId \in Range(ws.analysisRooms), joinAnalysisResult(ws))
    /\ UNCHANGED <<socks, sio>>
    /\ UNCHANGED pageVars

\* wsManager.leaveAnalysis(analysisId)
LeaveAnalysis(analysisId) ==
    /\ LET m == leaveAnalysis(Run(ws), analysisId) IN ws' = m.w /\ out' = m.out
    /\ asked' = asked \ {analysisId}
    /\ wsOp' = WsOp("leaveAnalysis", analysisId, ws.socket,
                    analysisId \notin Range(ws.analysisRooms), ws.socket # 0)
    /\ UNCHANGED <<socks, sio>>
    /\ UNCHANGED pageVars

\* wsManager.on(event, handler) with a handler of the embedding page
On(event, h) ==
    /\ Len(ws.eventHandlers[event]) < MaxHandlers
    /\ ws' = on(ws, event, h)
    /\ out' = << >>
    /\ wsOp' = WsOp("on", h.id, ws.socket, FALSE, TRUE)
    /\ UNCHANGED <<socks, asked, sio>>
    /\ UNCHANGED pageVars

\* wsManager.off(event, handler)
Off(event, h) ==
    /\ ws' = off(ws, event, h)
    /\ out' = << >>
    /\ wsOp' = WsOp("off", h.id, ws.socket, FALSE, h \in Range(ws.eventHandlers[event]))
    /\ UNCHANGED <<socks, asked, sio>>
    /\ UNCHANGED pageVars

\* wsManager.disconnect(): socket.disconnect() fires 'disconnect' at once on a
\* connected socket, then the manager drops the socket and its rooms
Disconnect ==
    /\ ws.socket # 0
    /\ LET s == ws.socket
           m == IF socks[s] = "connected" THEN onDisconnect(Run(ws)) ELSE Run(ws)
       IN  /\ ws' = [m.w EXCEPT !.socket = 0, !.isConnected = FALSE, !.analysisRooms = << >>]
           /\ out' = m.out
           /\ socks' = [socks EXCEPT ![s] = "closed"]
           /\ sio' = [sio EXCEPT ![s] = NewCycle]
    /\ asked' = {}
    /\ wsOp' = WsOp("manualDisconnect", Null, ws.socket, FALSE, TRUE)
    /\ UNCHANGED pageVars

\* wsManager.reconnect(): socket.connect() on the current socket, else initialize();
\* connect() opens a closed socket and starts a new cycle for one whose cycle has
\* given up, and does nothing to a socket that is connected or still trying
Reconnect ==
    /\ IF ws.socket # 0
       THEN /\ socks' = [socks EXCEPT ![ws.socket] =
                            IF @ \in {"closed", "disconnected"} THEN "connecting" ELSE @]
            /\ sio' = [sio EXCEPT ![ws.socket] =
                            IF socks[ws.socket] = "closed" \/ ~StillTrying(ws.socket)
                            THEN NewCycle ELSE @]
            /\ ws' = ws
       ELSE /\ Len(socks) < MaxWsSockets
            /\ ws' = initialize(ws, Len(socks) + 1)
            /\ socks' = IF ioAvailable THEN Append(socks, "connecting") ELSE socks
            /\ sio' = IF ioAvailable THEN Append(sio, NewCycle) ELSE sio
    /\ out' = << >>
    /\ wsOp' = WsOp("reconnect", Null, ws'.socket, FALSE, TRUE)
    /\ UNCHANGED <<asked>>
    /\ UNCHANGED pageVars

UserHandlers == {[kind |-> "throwing", id |-> "h1"]}

NextWs ==
    \/ Initialize
    \/ \E id \in Jobs : WsInitializeWebSocket(id)
    \/ \E s \in 1..MaxWsSockets : SocketConnect(s)
    \/ \E s \in 1..MaxWsSockets : SocketDisconnect(s)
    \/ \E id \in Jobs : JoinAnalysis(id)
    \/ \E id \in Jobs : LeaveAnalysis(id)
    \/ \E h \in UserHandlers : On("ws_connected", h)
    \/ Disconnect
    \/ Reconnect

\* tracking by polling alone: the page is loaded without socket.io, the job
\* runs at the server and every status request is answered
NextPoll ==
    \/ Initialize
    \/ \E id \in Tracked : PageInitializeWebSocket(id)
    \/ \E id \in Tracked : InitializeAnalysisTracking(id)
    \/ ServerStep
    \/ \E l \in 1..MaxLoops : PollServed(l)
    \/ \E l \in 1..MaxLoops : PollTimer(l)

\* handlers an embedding page registers and removes: one that throws, one that returns
PageHandlers == {[kind |-> "throwing", id |-> "h1"], [kind |-> "plain", id |-> "h2"]}

\* the fan-out registry: registration, removal and dispatch on connect / disconnect
NextEv ==
    \/ Len(socks) < MaxRcSockets /\ Initialize
    \/ \E id \in Tracked : Len(socks) < MaxRcSockets /\ WsInitializeWebSocket(id)
    \/ \E s \in 1..MaxRcSockets : SocketConnect(s)
    \/ \E s \in 1..MaxRcSockets : SocketDisconnect(s)
    \/ \E e \in EventNames, h \in PageHandlers : On(e, h)
    \/ \E e \in EventNames, h \in PageHandlers : Off(e, h)

\* the connection lifecycle of the manager's sockets
NextRc ==
    \/ Len(socks) < MaxRcSockets /\ Initialize
    \/ \E s \in 1..MaxRcSockets : SocketConnect(s)
    \/ \E s \in 1..MaxRcSockets : SocketReconnect(s)
    \/ \E s \in 1..MaxRcSockets : SocketDisconnect(s)
    \/ \E s \in 1..MaxRcSockets : SocketConnectError(s)
    \/ \E s \in 1..MaxRcSockets : SocketReconnectError(s)
    \/ Disconnect
    \/ (ws.socket # 0 \/ Len(socks) < MaxRcSockets) /\ Reconnect

\* the page is handed another job identifier while poll loops are running
NextJob ==
    \/ \E id \in Jobs : InitializeAnalysisTracking(id)
    \/ \E id \in Jobs : PageInitializeWebSocket(id)
    \/ RetryClick
    \/ \E l \in 1..MaxLoops : PollFail(l)
    \/ \E l \in 1..MaxLoops, data \in StatusBodies : PollResponse(l, data)
    \/ \E l \in 1..MaxLoops : PollTimer(l)

\* a long run of progress events between the terminal events and restarts of
\* one job: the feed fills up
NextFeed ==
    \/ \E id \in Tracked : InitializeAnalysisTracking(id)
    \/ \E pc \in {5} : AnalysisPageUpdateProgress(pc)
    \/ \E l \in 1..MaxLoops : PollFail(l)
    \/ \E l \in 1..MaxLoops : PollResponse(l, Completed)
    \/ RetryClick

\* both sources live: the job runs at the server, the poll loop asks for its
\* status and the push channel delivers some of its progress events
NextConv ==
    \/ \E id \in Tracked : InitializeAnalysisTracking(id)
    \/ \E id \in Tracked : PageInitializeWebSocket(id)
    \/ PageSocketConnect
    \/ ServerStep
    \/ \E pc \in Percents \ {0} : ServerPush(pc)
    \/ \E l \in 1..MaxLoops : PollServed(l)
    \/ \E l \in 1..MaxLoops : PollTimer(l)

\* the analysis page of one job: its start-up calls, both for that job, in
\* either order, then the poll loop and the page socket's connects
NextArm ==
    \/ \E id \in Jobs : page.analysisId \in {Null, id} /\ InitializeAnalysisTracking(id)
    \/ \E id \in Jobs : page.analysisId \in {Null, id} /\ PageInitializeWebSocket(id)
    \/ PageSocketConnect
    \/ \E l \in 1..MaxLoops, data \in StatusBodies : PollResponse(l, data)
    \/ \E l \in 1..MaxLoops : PollTimer(l)

\* a job that fails at the server: the failure reaches the page in a poll
\* response or in the push event, and the user may retry
NextErr ==
    \/ \E id \in Tracked : InitializeAnalysisTracking(id)
    \/ \E id \in Tracked : PageInitializeWebSocket(id)
    \/ PageSocketConnect
    \/ ServerStep
    \/ ServerPushError
    \/ \E l \in 1..MaxLoops : PollServed(l)
    \/ \E l \in 1..MaxLoops : PollTimer(l)
    \/ RetryClick

\* the time displays: the clock advances, the interval callback refreshes the
\* displays, and push events move the progress bar or end the job
NextTime ==
    \/ \E t \in StartTimes : ~page.progressInterval /\ StartTimeTracking(t)
    \/ \E id \in Tracked : PageInitializeWebSocket(id)
    \/ PageSocketConnect
    \/ \E j \in Tracked, pc \in {5} : PushProgress(j, pc)
    \/ Tick
    \/ TimeRefresh

\* push events of either job reach a page that tracks one of them
NextPush ==
    \/ \E id \in Jobs : InitializeAnalysisTracking(id)
    \/ \E id \in Jobs : PageInitializeWebSocket(id)
    \/ PageSocketConnect
    \/ \E j \in Jobs, pc \in Percents \ {0} : PushProgress(j, pc)
    \/ \E j \in Jobs : PushComplete(j)
    \/ \E j \in Jobs : PushError(j, "timeout")

\* progress events with any percentage and stage key, and the completion
NextSteps ==
    \/ \E id \in Tracked : PageInitializeWebSocket(id)
    \/ PageSocketConnect
    \/ \E j \in Tracked, pc \in StepPercents, step \in StepChoices : PushStep(j, pc, step)
    \/ \E j \in Tracked : PushComplete(j)

\* time tracking around a failed status request and the retry button
NextRestart ==
    \/ \E id \in Tracked : InitializeAnalysisTracking(id)
    \/ \E t \in StartTimes :
           ~page.progressInterval /\ page.elapsedTime = << >> /\ StartTimeTracking(t)
    \/ Tick
    \/ TimeRefresh
    \/ \E l \in 1..MaxLoops : PollFail(l)
    \/ RetryClick

\* the poll loop of a job whose status labels vary
NextLabel ==
    \/ \E id \in Tracked : InitializeAnalysisTracking(id)
    \/ \E label \in Labels : ServerRelabel(label)
    \/ \E l \in 1..MaxLoops : PollServed(l)
    \/ \E l \in 1..MaxLoops : PollTimer(l)

Init == InitPage /\ InitWs
Spec == Init /\ [][NextPage]_vars
SpecWs == Init /\ [][NextWs]_vars
SpecRc == Init /\ [][NextRc]_vars
SpecEv == Init /\ [][NextEv]_vars
SpecJob == Init /\ [][NextJob]_vars
SpecRestart == Init /\ [][NextRestart]_vars
SpecSteps == Init /\ [][NextSteps]_vars
SpecPush == Init /\ [][NextPush]_vars
SpecLabel == Init /\ [][NextLabel]_vars
SpecTime == Init /\ [][NextTime]_vars
SpecErr == Init /\ [][NextErr]_vars
SpecArm == Init /\ [][NextArm]_vars
SpecFeed == Init /\ [][NextFeed]_vars
\* the event loop runs every due timer callback and every settled fetch: weak
\* fairness of PollTimer(l) and of PollServed(l), the latter with its enabling
\* condition (a request of loop l is in flight) written out
Awaiting(l) == l \in DOMAIN polls /\ polls[l].st = "fetching"
InitPoll == Init /\ ~ioAvailable
SpecPoll ==
    /\ InitPoll
    /\ [][NextPoll]_vars
    /\ \A l \in 1..MaxLoops :
          /\ WF_vars(PollTimer(l))
          /\ ([]<>~Awaiting(l) \/ []<><<PollServed(l)>>_vars)

InitConv == Init /\ ioAvailable
\* the same fairness of the poll loop; none of the push channel
SpecConv ==
    /\ InitConv
    /\ [][NextConv]_vars
    /\ \A l \in 1..MaxLoops :
          /\ WF_vars(PollTimer(l))
          /\ ([]<>~Awaiting(l) \/ []<><<PollServed(l)>>_vars)

\* ================================================================== claims
ProgressOps == {"pushProgress", "pollProgress"}
InFlight(j) == {l \in DOMAIN polls : polls[l].st = "fetching" /\ polls[l].job = j}
Alive == {l \in DOMAIN polls : polls[l].st # "stopped"}
JoinsSent(o) == {o[i].id : i \in {k \in DOMAIN o : o[k].k = "emit" /\ o[k].ev = "join_analysis"}}
JoinHandlerIds(w) ==
    {w.eventHandlers["ws_connected"][i].id :
        i \in {k \in DOMAIN w.eventHandlers["ws_connected"] :
                  w.eventHandlers["ws_connected"][k].kind = "join"}}

\* C1: while the job is not terminal, no progress event (push or poll) lowers
\* the displayed percentage: a lower percentage is discarded.
C1_ProgressNeverDecreases ==
    [][(lastOp'.name \in ProgressOps /\ ~Terminal) => page'.width >= page.width]_vars

\* C2: once the job is terminal (completed or error), a later progress event
\* leaves displayed progress, current stage and feed unchanged.
C2_ProgressIgnoredAfterTerminal ==
    [][(lastOp'.name \in ProgressOps /\ Terminal) =>
          /\ page'.width = page.width
          /\ page'.title = page.title
          /\ page'.steps = page.steps
          /\ page'.feed = page.feed]_vars

\* C3: within one tracking session the completion handler runs at most once,
\* whichever of push and poll report the completion.
C3_CompletionOnce == hist.completions <= 1

\* C4: within one tracking session the error surface (showError) is produced
\* at most once, whichever of push and poll report the failure.
C4_ErrorOnce == hist.errors <= 1

\* C5: after the push channel has delivered a terminal event for the tracked
\* job, no poll timer issues another status request.
C5_NoPollAfterPushTerminal ==
    [][hist.pushTerminal => lastOp'.name # "pollTimer"]_vars

\* C6: at most one status request is in flight for a job and at most one poll
\* loop is alive.
C6_SinglePollLoop ==
    /\ \A j \in Jobs : Cardinality(InFlight(j)) <= 1
    /\ Cardinality(Alive) <= 1

\* C7: a poll loop that receives a completed or error response stops: it
\* schedules nothing, and a stopped loop never issues another request, so a
\* loop whose first response is completed has issued exactly one request.
C7_TerminalResponseStopsLoop ==
    [][/\ lastOp'.name \in {"pollComplete", "pollError"} =>
             /\ polls'[lastOp'.loop].st = "stopped"
             /\ polls'[lastOp'.loop].issued = polls[lastOp'.loop].issued
       /\ \A l \in DOMAIN polls : polls[l].st = "stopped" => polls'[l] = polls[l]]_vars

C7_Witness ==
    /\ lastOp.name = "pollComplete"
    /\ polls[lastOp.loop].st = "stopped"
    /\ polls[lastOp.loop].issued = 1

\* C8: a failed status request is reported through showError and the loop
\* stops after that single failure: it issues no further request.
C8_PollFailureStopsLoop ==
    [][/\ lastOp'.name = "pollFail" =>
             /\ page' = showError(page, "Failed to get analysis status")
             /\ polls'[lastOp'.loop].st = "stopped"
       /\ \A l \in DOMAIN polls :
             polls[l].st = "stopped" => polls'[l].issued = polls[l].issued]_vars

C8_Witness ==
    /\ lastOp.name = "pollFail"
    /\ page.errorVisible
    /\ page.errorMessage = "Failed to get analysis status"
    /\ polls[lastOp.loop].st = "stopped"

\* C9: a transport disconnect keeps the retained rooms, and on every connect a
\* join_analysis is sent for every retained room before the first ws_connected
\* handler runs.
C9_RejoinBeforeHandlers ==
    [][/\ wsOp'.name = "disconnect" => ws'.analysisRooms = ws.analysisRooms
       /\ wsOp'.name = "connect" =>
             \A r \in Range(ws.analysisRooms) :
                 \E i \in DOMAIN out' :
                     /\ out'[i] = Emitted("join_analysis", r, ws.socket)
                     /\ \A k \in 1..i : out'[k].k # "handler"]_vars

C9_Witness ==
    /\ wsOp.name = "connect"
    /\ wsOp.re
    /\ \E i, k \in DOMAIN out :
          /\ i < k
          /\ out[i].k = "emit" /\ out[i].ev = "join_analysis"
          /\ out[k].k = "handler"

\* C10 as stated: joinAnalysis on an initialized manager that is not connected
\* sends nothing but retains the room, and the next connect sends a
\* join_analysis for it.
C10_JoinRetainedWhileDisconnected ==
    [][/\ (wsOp'.name = "joinAnalysis" /\ ws.socket # 0 /\ ~ws.isConnected) =>
             /\ out' = << >>
             /\ wsOp'.id \in Range(ws'.analysisRooms)
       /\ wsOp'.name = "connect" => asked \subseteq JoinsSent(out')]_vars

\* C10 amended: joinAnalysis while not connected sends nothing, returns false
\* and leaves the manager unchanged; a connect sends join_analysis exactly for
\* the retained rooms and for the rooms of the ws_connected handlers that
\* initializeWebSocket registered, provided the manager holds a socket.
C10_JoinRefusedWhileDisconnected ==
    [][/\ (wsOp'.name = "joinAnalysis" /\ ~joinAnalysisResult(ws)) =>
             /\ out' = << >>
             /\ ws' = ws
             /\ ~wsOp'.ret
       /\ wsOp'.name = "connect" =>
             JoinsSent(out') = IF ws.socket = 0 THEN {}
                               ELSE Range(ws.analysisRooms) \cup JoinHandlerIds(ws)]_vars

C10_Witness ==
    /\ wsOp.name = "joinAnalysis"
    /\ wsOp.sock # 0
    /\ ~wsOp.ret
    /\ wsOp.id \notin Range(ws.analysisRooms)
    /\ out = << >>

\* joinAnalysis / leaveAnalysis applied once more to the manager as it stands
JoinedAgain(w, id) == joinAnalysis(Run(w), id).w.analysisRooms
LeftAgain(w, id) == leaveAnalysis(Run(w), id).w.analysisRooms

\* C11 as stated: in every connection state a second joinAnalysis (leaveAnalysis)
\* of the same job leaves the retained set as the first did; after joinAnalysis
\* the set contains the job and after leaveAnalysis it does not.
C11_JoinLeaveIdempotentAlwaysRetained ==
    [][/\ wsOp'.name = "joinAnalysis" =>
             /\ JoinedAgain(ws', wsOp'.id) = ws'.analysisRooms
             /\ wsOp'.id \in Range(ws'.analysisRooms)
       /\ wsOp'.name = "leaveAnalysis" =>
             /\ LeftAgain(ws', wsOp'.id) = ws'.analysisRooms
             /\ wsOp'.id \notin Range(ws'.analysisRooms)]_vars

\* C11 amended: a second joinAnalysis (leaveAnalysis) of the same job leaves the
\* retained set as the first did; after leaveAnalysis the set does not contain
\* the job; after joinAnalysis it contains the job exactly when the call
\* returned true (socket held and connected), and is unchanged otherwise.
C11_JoinLeaveIdempotent ==
    [][/\ wsOp'.name = "joinAnalysis" =>
             /\ JoinedAgain(ws', wsOp'.id) = ws'.analysisRooms
             /\ wsOp'.ret => wsOp'.id \in Range(ws'.analysisRooms)
             /\ ~wsOp'.ret => ws'.analysisRooms = ws.analysisRooms
       /\ wsOp'.name = "leaveAnalysis" =>
             /\ LeftAgain(ws', wsOp'.id) = ws'.analysisRooms
             /\ wsOp'.id \notin Range(ws'.analysisRooms)]_vars

C11_Witness ==
    /\ wsOp.name = "joinAnalysis"
    /\ wsOp.re
    /\ wsOp.ret
    /\ Len(ws.analysisRooms) = 2
    /\ wsOp.id \in Range(ws.analysisRooms)

Notices(o) == {i \in DOMAIN o : o[i].k = "status"}
FailureNotices(o) == {i \in Notices(o) : o[i].ev = "Failed to reconnect"}

\* C12: within one reconnection cycle the 'Failed to reconnect' notification is
\* shown once: a reconnect_error reported after it has been shown shows nothing.
C12_FailureNoticeOnce ==
    [][(wsOp'.name = "reconnect_error" /\ sio[wsOp'.sock].failed) =>
          FailureNotices(out') = {}]_vars

\* C13: the retry counter never exceeds maxReconnectAttempts, and while it is
\* at the maximum the manager is not connected.
C13_RetryCounterBounded ==
    /\ ws.reconnectAttempts <= maxReconnectAttempts
    /\ ws.reconnectAttempts = maxReconnectAttempts => ~ws.isConnected

\* C14: in every state reached by handling a connect event, reconnectAttempts
\* is 0 and isConnected is true.
C14_ConnectResetsAttempts ==
    wsOp.name = "connect" => (ws.reconnectAttempts = 0 /\ ws.isConnected)

C14_Witness ==
    /\ wsOp.name = "connect"
    /\ sio[wsOp.sock].tries > 0
    /\ ws.reconnectAttempts = 0
    /\ ws.isConnected

\* C15: one notification per connection-state transition: the reconnect event
\* that follows the connect of a successful reconnection shows nothing more,
\* and a connect_error after the first of a cycle shows nothing more.
C15_OneNoticePerTransition ==
    [][/\ wsOp'.name = "reconnected" => Notices(out') = {}
       /\ (wsOp'.name = "connect_error" /\ wsOp'.re) => Notices(out') = {}]_vars

\* the event an operation dispatches to the registry
Dispatched(op) ==
    CASE op.name = "connect" -> "ws_connected"
      [] op.name = "disconnect" -> "ws_disconnected"
      [] OTHER -> Null
Invocations(o, ev) == SelectSeq(o, LAMBDA e : e.k = "handler" /\ e.ev = ev)
Expected(hs, ev) == [i \in DOMAIN hs |-> Invoked(ev, hs[i])]
Registrable == PageHandlers \cup {[kind |-> "join", id |-> j] : j \in Jobs}
WithoutOne(hs, h) == {splice(hs, i) : i \in {k \in DOMAIN hs : hs[k] = h}}

\* C16: on() puts a handler after those registered before it, off() takes one
\* registration of the handler away and keeps the others in order, and a
\* dispatched event invokes the registered handlers of that event, each once
\* per registration, in registration order.
C16_HandlersInRegistrationOrder ==
    [][/\ wsOp'.name = "on" =>
             \E e \in EventNames, h \in Registrable :
                 /\ h.id = wsOp'.id
                 /\ ws'.eventHandlers = [ws.eventHandlers EXCEPT ![e] = Append(@, h)]
       /\ wsOp'.name = "off" =>
             \E e \in EventNames, h \in Registrable :
                 /\ h.id = wsOp'.id
                 /\ \/ /\ h \notin Range(ws.eventHandlers[e])
                       /\ ws'.eventHandlers = ws.eventHandlers
                    \/ \E hs \in WithoutOne(ws.eventHandlers[e], h) :
                           ws'.eventHandlers = [ws.eventHandlers EXCEPT ![e] = hs]
       /\ Dispatched(wsOp') # Null =>
             Invocations(out', Dispatched(wsOp')) =
                 Expected(ws.eventHandlers[Dispatched(wsOp')], Dispatched(wsOp'))]_vars

C16_Witness ==
    /\ wsOp.name = "connect"
    /\ Len(Invocations(out, "ws_connected")) = 3
    /\ Invocations(out, "ws_connected")[2].id = "h2"
    /\ Invocations(out, "ws_connected")[3].id = "h1"

\* the manager with every throwing handler replaced by one that returns
Calm(w) ==
    [w EXCEPT !.eventHandlers =
        [e \in DOMAIN @ |-> [i \in DOMAIN @[e] |->
            IF @[e][i].kind = "throwing" THEN [@[e][i] EXCEPT !.kind = "plain"]
            ELSE @[e][i]]]]
Throwing == {h.id : h \in {x \in PageHandlers \cup UserHandlers : x.kind = "throwing"}}
Fields(w) == <<w.socket, w.isConnected, w.reconnectAttempts, w.analysisRooms>>
CalmRun(w, op) ==
    IF op.name = "connect" THEN onConnect(Run(Calm(w))) ELSE onDisconnect(Run(Calm(w)))

\* C17: in a dispatch every exception of a handler is caught at once, the
\* handlers registered after it still run, nothing is left uncaught, and the
\* manager's connection state and retained rooms end as they would have with
\* the handler returning normally.
C17_HandlerFailureIsolated ==
    [][Dispatched(wsOp') # Null =>
          /\ \A i \in DOMAIN out' :
                 (out'[i].k = "handler" /\ out'[i].id \in Throwing) =>
                     /\ i < Len(out')
                     /\ out'[i + 1] = [out'[i] EXCEPT !.k = "caught"]
          /\ \A i \in DOMAIN out' : out'[i].k # "uncaught"
          /\ Len(Invocations(out', Dispatched(wsOp'))) =
                 Len(ws.eventHandlers[Dispatched(wsOp')])
          /\ Fields(ws') = Fields(CalmRun(ws, wsOp').w)
          /\ SelectSeq(out', LAMBDA e : e.k # "caught") = CalmRun(ws, wsOp').out]_vars

C17_Witness ==
    /\ wsOp.name = "connect"
    /\ \E i, k \in DOMAIN out :
          /\ i < k
          /\ out[i].k = "caught"
          /\ out[k].k = "handler"
          /\ out[k].id = "a1"
    /\ "a1" \in Range(ws.analysisRooms)

\* tracking has been started and no pending poll timer is kept from issuing
\* its request
Polling ==
    /\ polls # << >>
    /\ \A l \in DOMAIN polls : polls[l].st = "timer" => spent < MaxEvents

\* C18: without socket.io initialize() returns false and creates no socket,
\* and polling alone tracks the job: a processing response displays the
\* reported percentage, and once the server reports completed (error) for a
\* job whose tracking was started, the completion (error) handler eventually
\* runs.
C18_PollingAloneTracksJob ==
    /\ [](wsOp.name = "initialize" => (~wsOp.ret /\ ws.socket = 0))
    /\ [][(polls' # polls /\ lastOp'.name = "pollProgress") =>
             page'.width = server.progress]_vars
    /\ (server.status = "completed" /\ Polling) ~> (hist.completions > 0)
    /\ (server.status = "error" /\ Polling) ~> (hist.errors > 0)

C18_Witness ==
    /\ ~ioAvailable
    /\ ~analysisSocket
    /\ wsOp.name = "initialize"
    /\ server.status = "completed"
    /\ lastOp.name = "pollComplete"
    /\ polls[lastOp.loop].issued > 1
    /\ page.viewReport
    /\ page.width = 100

Restarted == lastOp'.name = "restartAnalysis"
Requested(ps, id) == {l \in DOMAIN ps : ps[l].st = "fetching" /\ ps[l].job = id}
ProgressReports ==
    {[pc |-> pc, msg |-> SrvLabel(pc), step |-> SrvStep(pc)] : pc \in Percents}
    \cup {[pc |-> b.progress,
           msg |-> IF b.current_step # Null THEN b.current_step ELSE "Processing...",
           step |-> getCurrentStepKey(b.current_step)] :
              b \in {x \in StatusBodies : x.status = "processing"}}

C20_RestartResetsState ==
    [][/\ Restarted =>
             /\ page'.feed = <<[ts |-> now, msg |-> <<"Analysis restarted">>]>>
             /\ page'.width = 0 /\ page'.pct = 0
             /\ \A k \in StepKeys : page'.steps[k] = "pending"
             /\ page'.startTime = now
             /\ ~page'.errorVisible
             /\ ~Terminal'
       /\ (lastOp.name = "restartAnalysis" /\ lastOp'.name \in ProgressOps) =>
             \E r \in ProgressReports : page' = updateProgress(page, r.pc, r.msg, r.step)]_vars

C20_Witness ==
    /\ lastOp.name \in ProgressOps
    /\ Len(page.feed) = 2
    /\ page.feed[1].msg = <<"Analysis restarted">>
    /\ page.width > 0
    /\ ~page.errorVisible

\* the answers a poll closure may get to its request
PollResults == {"pollComplete", "pollError", "pollProgress", "pollOther"}
\* loop l's request in flight was issued for a job that is no longer the active
\* one, or a restart has started a loop after l
Stale(l) ==
    \/ polls[l].job # page.analysisId
    \/ \E k \in DOMAIN polls : k > l /\ polls[k].by = "restart"

\* C21: the answer to a status request that was issued for another job than
\* the active one, or by a loop that a restart has superseded, is discarded: it
\* changes neither displayed progress, feed nor terminal state, and the loop
\* schedules no further request.
C21_StaleResponseDiscarded ==
    [][(lastOp'.name \in PollResults /\ lastOp' # lastOp /\ Stale(lastOp'.loop)) =>
          /\ page'.width = page.width
          /\ page'.feed = page.feed
          /\ page'.errorVisible = page.errorVisible
          /\ page'.viewReport = page.viewReport
          /\ hist' = hist
          /\ polls'[lastOp'.loop].st = "stopped"]_vars

\* entries the operation that made the step appends to the feed
AppendedBy(op) == IF op.name = "pollComplete" THEN 2 ELSE 1
LastOf(f, n) == SubSeq(f, Len(f) - n + 1, Len(f))
\* f with the entries of g appended one by one, the oldest evicted over the limit
Capped(f, g) == IF Len(f \o g) > FeedLimit THEN LastOf(f \o g, FeedLimit) ELSE f \o g

\* C22: the feed never holds more than 50 entries, and an operation other
\* than a restart leaves the feed it found with its own entries appended, the
\* oldest entries evicted one per entry over 50 and the others kept in order.
C22_FeedCapped ==
    /\ [](Len(page.feed) <= FeedLimit)
    /\ [][(page' # page /\ lastOp'.name # "restartAnalysis") =>
             /\ Len(page'.feed) >= AppendedBy(lastOp')
             /\ page'.feed = Capped(page.feed, LastOf(page'.feed, AppendedBy(lastOp')))]_vars

C22_Witness ==
    /\ lastOp.name = "updateProgress"
    /\ Len(page.feed) = FeedLimit
    /\ page.feed[1].msg = <<"ERROR: ", "Failed to get analysis status">>
    /\ page.feed[2].msg = <<SrvLabel(5)>>

\* C23: with push events lost, repeated or late, while the tracked job is
\* processing at percentage pc and the poll loop runs, the displayed progress
\* eventually equals pc unless the server has reported something newer.
C23_EventualConvergence ==
    \A pc \in Percents :
        (server = Processing(pc) /\ Polling) ~>
            (page.width = pc \/ server # Processing(pc))

C23_Witness ==
    /\ lastOp.name = "pollProgress"
    /\ server = Processing(10)
    /\ page.width = 10
    /\ Len(page.feed) >= 3
    /\ page.feed[Len(page.feed) - 1].msg = <<SrvLabel(5)>>
    /\ page.feed[Len(page.feed) - 2].msg = <<SrvLabel(10)>>

C25_LeaveSendsOnlyWhenConnected ==
    [][/\ wsOp'.name = "leaveAnalysis" =>
             /\ ~ws.isConnected => out' = << >>
             /\ ws.isConnected => out' = <<Emitted("leave_analysis", wsOp'.id, ws.socket)>>
             /\ wsOp'.id \notin Range(ws'.analysisRooms)
       /\ (wsOp.name = "leaveAnalysis" /\ wsOp'.name = "connect") =>
             wsOp.id \notin JoinsSent(out')]_vars

\* the step ran showError with a message
Surfaced ==
    /\ page'.errorVisible
    /\ page'.errorMessage # Null
    /\ hist'.errors = hist.errors + 1
\* the reconnect_error handled in the step was the last attempt of its cycle
Exhausted ==
    /\ wsOp'.name = "reconnect_error"
    /\ wsOp' # wsOp \/ sio' # sio
    /\ sio'[wsOp'.sock].tries >= maxReconnectAttempts

\* C26: a failed status request, an error reported by the server (in a poll
\* response or in a push event for the tracked job) and the exhaustion of the
\* reconnection attempts each run showError with a message.
C26_FailuresReachShowError ==
    [][/\ (lastOp' # lastOp /\ lastOp'.name \in {"pollFail", "pollError"}) => Surfaced
       /\ (lastOp' # lastOp /\ lastOp'.name = "pushError" /\ page' # page) => Surfaced
       /\ Exhausted => Surfaced]_vars

\* C27: when the server's poll response or push event reports the job's error
\* with an error text, the error section is revealed showing exactly that
\* text and, tracking having been started, the retry button has its listener.
C27_UpstreamErrorVerbatim ==
    [][(/\ lastOp' # lastOp
        /\ lastOp'.name \in {"pollError", "pushError"}
        /\ server.error_message # Null) =>
           /\ page'.errorVisible
           /\ page'.errorMessage = server.error_message
           /\ polls # << >> => page'.retryListeners > 0]_vars

C27_Witness ==
    /\ lastOp.name = "restartAnalysis"
    /\ hist.served
    /\ server = Failed("timeout")
    /\ page.errorMessage = "timeout"
    /\ ~page.errorVisible

\* C28: a time refresh with elapsed = now - startTime and displayed progress p
\* shows, for 0 < p < 100, the remaining time max(0, floor(elapsed * 100 / p -
\* elapsed)), and for p = 0 leaves the remaining-time display as it was.
C28_RemainingTimeEstimate ==
    [][(lastOp' # lastOp /\ lastOp'.name = "timeRefresh") =>
          /\ (page.width > 0 /\ page.width < 100) =>
                 page'.remainingTime =
                     formatTime(MathMax(0, ((now - page.startTime) * 100) \div page.width
                                           - (now - page.startTime)))
          /\ page.width = 0 => page'.remainingTime = page.remainingTime]_vars

\* cs with every underscore read as a space
Underscored(cs) == [i \in 1..Len(cs) |-> IF cs[i] = "_" THEN " " ELSE cs[i]]
Occurs(needle, label) == includes(toLowerCase(label), toLowerCase(needle))
Matches(i, label) ==
    \/ Occurs(Underscored(Chars(ANALYSIS_STEPS[i].key)), Chars(label))
    \/ Occurs(Chars(ANALYSIS_STEPS[i].name), Chars(label))
\* the stage of a label: the first catalog entry that matches, Null for none
StageOf(label) ==
    IF label \in {Null, ""} THEN Null
    ELSE IF \A i \in DOMAIN ANALYSIS_STEPS : ~Matches(i, label) THEN Null
    ELSE ANALYSIS_STEPS[CHOOSE i \in DOMAIN ANALYSIS_STEPS :
                            Matches(i, label) /\ \A k \in 1..(i - 1) : ~Matches(k, label)].key

\* C29: a processing response is displayed with the stage of its status label:
\* the first catalog entry, in catalog order, whose key (underscores read as
\* spaces) or display name occurs in the label, letter case ignored, and no
\* stage at all for a label that matches no entry or is empty or absent.
C29_LabelMapsToFirstMatch ==
    [][(lastOp' # lastOp /\ lastOp'.name = "pollProgress") =>
          /\ getCurrentStepKey(server.current_step) = StageOf(server.current_step)
          /\ page' = updateProgress(page, server.progress,
                                    IF server.current_step \in {Null, ""}
                                    THEN "Processing..." ELSE server.current_step,
                                    StageOf(server.current_step))]_vars

C29_Witness ==
    /\ lastOp.name = "pollProgress"
    /\ server.current_step = "Objection analysis after avatar analysis"
    /\ page.title = "Objection analysis after avatar analysis"
    /\ page.steps["avatar_analysis"] = "active"
    /\ page.steps["objection_analysis"] = "pending"
    /\ page.description = "avatar_analysis"

IsDigit(c) == c \in {"0", "1", "2", "3", "4", "5", "6", "7", "8", "9"}
DigitValue(c) == CHOOSE d \in 0..9 : DigitChar(d) = c
RECURSIVE Value(_)
Value(cs) == IF cs = << >> THEN 0
             ELSE 10 * Value(SubSeq(cs, 1, Len(cs) - 1)) + DigitValue(cs[Len(cs)])
\* text is the MM:SS display of that many seconds
Shows(text, seconds) ==
    LET n == Len(text)
    IN  /\ n >= 5
        /\ text[n - 2] = ":"
        /\ \A i \in (1..n) \ {n - 2} : IsDigit(text[i])
        /\ Value(SubSeq(text, 1, n - 3)) = seconds \div 60
        /\ n > 5 => text[1] # "0"
        /\ Value(SubSeq(text, n - 1, n)) = seconds % 60
        /\ Value(SubSeq(text, n - 1, n)) \in 0..59

\* C30: every time the page displays is the whole minutes of the duration in
\* at least two digits, a colon, and the duration's seconds modulo 60 in
\* exactly two digits, and the formatter of main.js gives the same text.
C30_FormatTime ==
    [][(lastOp' # lastOp /\ lastOp'.name = "timeRefresh") =>
          LET elapsed == now - page.startTime
          IN  /\ elapsed >= 0
              /\ Shows(page'.elapsedTime, elapsed)
              /\ page'.elapsedTime = formatTimeMain(elapsed)
              /\ (page.width > 0 /\ page.width < 100) =>
                     /\ Shows(page'.remainingTime, estimateRemaining(elapsed, page.width))
                     /\ page'.remainingTime =
                            formatTimeMain(estimateRemaining(elapsed, page.width))]_vars

C30_Witness ==
    /\ lastOp.name = "timeRefresh"
    /\ now - page.startTime = 6000
    /\ page.elapsedTime = <<"1", "0", "0", ":", "0", "0">>

\* sockets created by io() whose listeners call into the manager and that
\* have not been closed
Wired == {s \in DOMAIN socks : socks[s] # "closed"}

\* C31: whatever initialize() calls were made, at most one socket is wired to
\* the manager and open, and isConnected is true exactly when that socket,
\* the one the manager holds, is connected.
C31_SingleDeliveringSocket ==
    /\ Cardinality(Wired) <= 1
    /\ ws.isConnected <=> (ws.socket # 0 /\ socks[ws.socket] = "connected")

\* positions of the join_analysis messages for id among what a run sent
JoinEmits(o, id) ==
    {i \in DOMAIN o : o[i].k = "emit" /\ o[i].ev = "join_analysis" /\ o[i].id = id}

\* C32: a connect sends exactly one join_analysis for every room the manager
\* retains, counting the replay of the retained rooms and the ws_connected
\* handlers that initializeWebSocket registered together.
C32_OneJoinPerRoomPerConnect ==
    [][wsOp'.name = "connect" =>
          \A id \in Range(ws'.analysisRooms) : Cardinality(JoinEmits(out', id)) = 1]_vars

\* the step is the delivery of a push event of job j
PushOf(j) ==
    \/ \E pc \in Percents : PushProgress(j, pc)
    \/ PushComplete(j)
    \/ PushError(j, "timeout")

C34_OtherStatusOnlyReschedules ==
    [][\A l \in 1..MaxLoops, data \in StatusBodies :
          (data.status \notin {"completed", "error", "processing"} /\ PollResponse(l, data)) =>
              /\ page' = page
              /\ hist' = hist
              /\ polls'[l].st = "timer"]_vars

C34_Witness ==
    /\ lastOp.name = "pollOther"
    /\ polls[lastOp.loop].st = "timer"
    /\ page.width = 5
    /\ page.feed # << >>

C36_RestartRearmsTimeRefresh ==
    [][(/\ lastOp' # lastOp
        /\ lastOp'.name = "restartAnalysis"
        /\ page.errorVisible
        /\ page.elapsedTime # << >>) =>
           /\ page'.progressInterval
           /\ page'.startTime = now]_vars

\* the join_analysis messages a connect sent before it called any handler:
\* those of rejoinAnalysisRooms
Replayed(o) ==
    {o[i].id : i \in {k \in DOMAIN o : /\ o[k].k = "emit" /\ o[k].ev = "join_analysis"
                                        /\ \A h \in 1..k : o[h].k # "handler"}}

\* C37: the manager is never connected without holding a socket; a manual
\* disconnect leaves it not connected, without socket and without retained
\* rooms, and the connect that follows a later reconnect() replays no room.
C37_ManualDisconnectClears ==
    /\ [](ws.isConnected => ws.socket # 0)
    /\ [][wsOp'.name = "manualDisconnect" =>
              /\ ~ws'.isConnected
              /\ ws'.socket = 0
              /\ ws'.analysisRooms = << >>]_vars
    /\ [][(wsOp.name = "reconnect" /\ wsOp'.name = "connect" /\ ws.analysisRooms = << >>) =>
              Replayed(out') = {}]_vars
====
